---- MODULE Spec2Model ----
(***************************************************************************)
(* A model of the Heuristic repository:                                    *)
(*   src/Extraction.py  extract_text_from_pdf, call_gemini_for_extraction, *)
(*                      extractPDF                                         *)
(*   src/QueryarXiv.py  search_arxiv                                       *)
(*   src/template.py    collect_papers, download_pdfs                      *)
(* The program is single-threaded; every action below is one step of the   *)
(* one running function.  The remote services (the generative endpoint,    *)
(* the arXiv API, the PDF host) and the PDF library are the environment:   *)
(* their answers are drawn from small sets.                                *)
(***************************************************************************)
EXTENDS Integers, Sequences, FiniteSets, TLC

VARIABLES
    \* ---- src/Extraction.py
    API_KEY,                    \* module constant API_KEY ("" = not configured)
    file,                       \* contents of extracted_heuristics.json
    epc,                        \* position of extractPDF
    document,                   \* what fitz.open yields for pdf_file_path
    all_page_data,              \* extractPDF: result of extract_text_from_pdf
    idx,                        \* extractPDF: pages of all_page_data finished
    all_extracted_heuristics,   \* extractPDF: the accumulator list
    cpc,                        \* position of call_gemini_for_extraction
    attempt,                    \* call: loop variable of the retry loop
    posts,                      \* call: POST requests issued by this call
    waited,                     \* call: seconds slept in backoff by this call
    callResult,                 \* call: the returned value
    \* ---- observations of a run (history, not read by the program)
    fileAtStart,                \* file contents when the current run began
    ranBefore,                  \* an earlier run of extractPDF has ended
    writes,                     \* writes of the output file in this run
    submitted,                  \* page numbers handed to the call, in order
    pageResults,                \* per finished page: [page_num, result]
    sleeps,                     \* inter-page 0.5 s delays performed
    onlyTransport,              \* call: every failed attempt so far failed in transport
    lastOutcome,                \* call: what the last attempt met
    \* ---- extract_text_from_pdf on its own
    tpc, pdf, page_texts,
    \* ---- src/QueryarXiv.py and src/template.py
    keywords, spc, searchGets, response, papers,
    dpc, di, downloadLog, pdf_dir, reported

extractVars == <<API_KEY, file, epc, document, all_page_data, idx,
                 all_extracted_heuristics, cpc, attempt, posts, waited,
                 callResult, fileAtStart, ranBefore, writes, submitted,
                 pageResults, sleeps, onlyTransport, lastOutcome>>
textVars    == <<tpc, pdf, page_texts>>
paperVars   == <<keywords, spc, searchGets, response, papers,
                 dpc, di, downloadLog, pdf_dir, reported>>
vars        == <<extractVars, textVars, paperVars>>


\* ------------------------------------------------------------------------
\* Bounds of the model
MaxPages == 2       \* pages of a PDF document
MaxKeywords == 2    \* keywords of a search
MaxEntries == 2     \* entries of a feed the arXiv API returns

\* ------------------------------------------------------------------------
\* Page text.  A text is its leading whitespace, its core (first to last
\* non-whitespace character) and its trailing whitespace, by length.
MinChars == 100

Text(l, c, t) == [lead |-> l, core |-> c, trail |-> t]

len(text) == text.lead + text.core + text.trail

\* str.strip(): leading and trailing whitespace removed; a text of
\* whitespace only (core = 0) becomes empty
strip(text) == Text(0, text.core, 0)

CoreLens == {0, MinChars - 1, MinChars, MinChars + 1}
AllTexts == {Text(l, c, t) : l \in {0, 1}, c \in CoreLens, t \in {0, 1}}
\* the texts of the extractPDF runs: one page just under the limit once
\* stripped, one just over it
RunTexts == {Text(1, MinChars, 1), Text(0, MinChars + 1, 0)}

SeqsUpTo(S, n) == UNION {[1..k -> S] : k \in 0..n}

OpenError == [ok |-> FALSE, pages |-> <<>>]
Docs(texts) == {OpenError} \cup
               {[ok |-> TRUE, pages |-> p] : p \in SeqsUpTo(texts, MaxPages)}

\* line 66: the filter of extract_text_from_pdf
QualifiesAtLeast(text) == len(strip(text)) >= MinChars
Qualifies(text) == len(strip(text)) > MinChars

\* lines 60-70: the page loop, page_num = 0 .. page_count - 1
RECURSIVE PageLoop(_, _, _)
PageLoop(pages, page_num, acc) ==
    IF page_num >= Len(pages) THEN acc
    ELSE PageLoop(pages, page_num + 1,
                  IF Qualifies(pages[page_num + 1])
                  THEN Append(acc, [page_num |-> page_num + 1,
                                    text |-> pages[page_num + 1]])
                  ELSE acc)

extract_text_from_pdf(doc) ==
    IF ~doc.ok THEN <<>> ELSE PageLoop(doc.pages, 0, <<>>)

\* ------------------------------------------------------------------------
\* Texts exchanged with the generative endpoint are sequences of tokens:
\* "[" "]" "," and one token per JSON value ("H1", "H2": a rule object with
\* that rule_id; "5", "7": numbers; anything else is not JSON).

\* Python's None, and the raised IndexError, as values no text equals
None       == <<"<None>">>
IndexError == <<"<IndexError>">>
\* no file on disk
Absent     == <<"<absent>">>

ObjectToks == {"H1", "H2"}
NumberToks == {"5", "7"}
ValueToks  == ObjectToks \cup NumberToks

JsonError         == [kind |-> "error",  items |-> <<>>]
JsonNumber        == [kind |-> "number", items |-> <<>>]
JsonObject(keys)  == [kind |-> "object", items |-> keys]
JsonArray(items)  == [kind |-> "array",  items |-> items]

\* the values of a comma-separated run of tokens, or JsonError
RECURSIVE ParseElements(_, _)
ParseElements(toks, acc) ==
    IF toks = <<>> THEN JsonError
    ELSE IF Head(toks) \notin ValueToks THEN JsonError
    ELSE IF Len(toks) = 1 THEN JsonArray(Append(acc, Head(toks)))
    ELSE IF toks[2] # "," THEN JsonError
    ELSE ParseElements(SubSeq(toks, 3, Len(toks)), Append(acc, Head(toks)))

\* json.loads (line 170); JsonError stands for json.JSONDecodeError
json_loads(s) ==
    IF Len(s) = 1 /\ s[1] \in NumberToks THEN JsonNumber
    ELSE IF Len(s) = 1 /\ s[1] \in ObjectToks THEN JsonObject(<<"rule_id">>)
    ELSE IF Len(s) >= 2 /\ s[1] = "[" /\ s[Len(s)] = "]"
         THEN IF Len(s) = 2 THEN JsonArray(<<>>)
              ELSE ParseElements(SubSeq(s, 2, Len(s) - 1), <<>>)
    ELSE JsonError

RECURSIVE JoinCommas(_)
JoinCommas(list) ==
    IF Len(list) = 0 THEN <<>>
    ELSE IF Len(list) = 1 THEN <<list[1]>>
    ELSE <<list[1], ",">> \o JoinCommas(Tail(list))

\* json.dump of a list (line 190)
json_dump(list) == <<"[">> \o JoinCommas(list) \o <<"]">>

\* truth value of an `str | None` (lines 123, 167)
Truthy(s) == s # None /\ Len(s) > 0

\* truth value of a parsed JSON value (line 171)
TruthyJson(v) == IF v.kind = "number" THEN TRUE ELSE Len(v.items) > 0

\* ------------------------------------------------------------------------
\* Response bodies of the endpoint: dicts are functions on their keys.
EmptyDict == [k \in {} |-> None]

Get(d, k, default) == IF k \in DOMAIN d THEN d[k] ELSE default

BodyWithText(t) ==
    [candidates |-> <<[content |-> [parts |-> <<[text |-> t]>>]]>>]

\* line 121:
\* result.get('candidates', [{}])[0].get('content', {}).get('parts', [{}])[0].get('text')
ExtractText(result) ==
    LET candidates == Get(result, "candidates", <<EmptyDict>>)
    IN  IF Len(candidates) = 0 THEN IndexError
        ELSE LET content == Get(candidates[1], "content", EmptyDict)
                 parts   == Get(content, "parts", <<EmptyDict>>)
             IN  IF Len(parts) = 0 THEN IndexError
                 ELSE Get(parts[1], "text", None)

\* the texts the endpoint may put in a response
ResponseTexts ==
    << <<"oops">>, <<"[", "]">>, <<"[", "H1", "]">>,
       <<"[", "H2", ",", "H1", "]">>, <<"5">>, <<"[", "7", "]">> >>

\* label and text are what the endpoint did (kept for the record); the
\* program sees kind and body only
Outcome(l, k, b, t) == [label |-> l, kind |-> k, body |-> b, text |-> t]

\* what one POST can meet: an exception of requests.post, an error status
\* (raise_for_status), or a 200 response with some body
Outcomes ==
    << Outcome("transport", "transport", EmptyDict, None),
       Outcome("http", "http", EmptyDict, None),
       Outcome("no_candidates", "ok", [model |-> <<>>], None),
       Outcome("empty_candidates", "ok", [candidates |-> <<>>], None),
       Outcome("no_content", "ok", [candidates |-> <<[index |-> <<>>]>>], None),
       Outcome("no_parts", "ok", [candidates |-> <<[content |-> [role |-> <<>>]]>>], None),
       Outcome("empty_parts", "ok", [candidates |-> <<[content |-> [parts |-> <<>>]]>>], None),
       Outcome("no_text", "ok", [candidates |-> <<[content |-> [parts |-> <<[data |-> <<>>]>>]]>>], None),
       Outcome("empty_text", "ok", BodyWithText(<<>>), <<>>) >>
    \o [i \in DOMAIN ResponseTexts |->
            Outcome("text", "ok", BodyWithText(ResponseTexts[i]),
                    ResponseTexts[i])]

\* the bodies that carry no usable payload
NoPayload == {"no_candidates", "empty_candidates", "no_content", "no_parts",
              "empty_parts", "no_text", "empty_text"}

\* ------------------------------------------------------------------------
\* call_gemini_for_extraction (lines 78-138)
max_retries_plus_one == 5 + 1
max_retries == 5

BackoffLinear(a) == 2 * a
BackoffDelay(a) == 2 ^ a

\* line 132
SleepsAfter(a) == a < max_retries - 1

ApiKeys == {"", "AIza"}

NoOutcome == [label |-> "none", text |-> None]

callVars == <<cpc, attempt, posts, waited, callResult, onlyTransport,
              lastOutcome>>

CallIdle ==
    /\ cpc = "idle" /\ attempt = 0 /\ posts = 0 /\ waited = 0
    /\ callResult = None /\ onlyTransport = TRUE /\ lastOutcome = NoOutcome

CallReset ==
    /\ cpc' = "idle" /\ attempt' = 0 /\ posts' = 0 /\ waited' = 0
    /\ callResult' = None /\ onlyTransport' = TRUE /\ lastOutcome' = NoOutcome

\* one iteration of the retry loop (lines 112-135); the last failing
\* iteration falls through to `return None` (lines 137-138).  An IndexError
\* of line 121 is caught nowhere: it leaves the call and extractPDF.
AttemptWith(o) ==
    LET json_text == IF o.kind = "ok" THEN ExtractText(o.body) ELSE None
    IN  /\ posts' = posts + 1
        /\ lastOutcome' = [label |-> o.label, text |-> o.text]
        /\ onlyTransport' = IF json_text # IndexError /\ ~Truthy(json_text)
                            THEN onlyTransport /\ o.kind = "transport"
                            ELSE onlyTransport
        /\ IF json_text = IndexError
           THEN /\ cpc' = "raised"
                /\ epc' = "raised"
                /\ UNCHANGED <<attempt, waited, callResult>>
           ELSE IF Truthy(json_text)
           THEN /\ cpc' = "returned"
                /\ callResult' = json_text
                /\ UNCHANGED <<attempt, waited, epc>>
           ELSE /\ waited' = waited + (IF SleepsAfter(attempt)
                                       THEN BackoffDelay(attempt) ELSE 0)
                /\ attempt' = attempt + 1
                /\ cpc' = IF attempt + 1 < max_retries THEN "try" ELSE "returned"
                /\ callResult' = None
                /\ UNCHANGED epc

Attempt ==
    /\ epc = "pages" /\ cpc = "try"
    /\ \E i \in DOMAIN Outcomes : AttemptWith(Outcomes[i])
    /\ UNCHANGED <<API_KEY, file, document, all_page_data, idx,
                   all_extracted_heuristics, fileAtStart, ranBefore, writes,
                   submitted, pageResults, sleeps>>
    /\ UNCHANGED <<textVars, paperVars>>


\* ------------------------------------------------------------------------
\* extractPDF (lines 142-196)

\* list.extend (line 173)
RECURSIVE Dedup(_, _)
Dedup(list, seen) ==
    IF list = <<>> THEN <<>>
    ELSE IF Head(list) \in seen THEN Dedup(Tail(list), seen)
    ELSE <<Head(list)>> \o Dedup(Tail(list), seen \cup {Head(list)})
ExtendUnique(list, items) == Dedup(list \o items, {})
Extend(list, items) == list \o items

\* lines 189-190: open(output_filename, 'w') and json.dump
WriteAppending(old, list) ==
    IF old = Absent THEN json_dump(list)
    ELSE json_dump(json_loads(old).items \o list)
WriteFile(old, list) == json_dump(list)

\* line 161: the for loop over all_page_data is exhausted
LoopDoneAfterFirst == idx >= 1
LoopDone == idx = Len(all_page_data)

\* lines 194-196: rule.get(...) on the first 3 rules; only an object has .get
PreviewRaises(list) ==
    \E i \in 1..Len(list) : i <= 3 /\ list[i] \notin ObjectToks

\* lines 146-159: the guards and the text extraction of a run on `doc`
ExtractPDFStart(doc) ==
    /\ epc \in {"idle", "returned", "raised"}
    /\ ranBefore' = (epc # "idle")
    /\ fileAtStart' = file
    /\ document' = doc
    /\ idx' = 0
    /\ all_extracted_heuristics' = <<>>
    /\ writes' = 0
    /\ submitted' = <<>>
    /\ pageResults' = <<>>
    /\ sleeps' = 0
    /\ CallReset
    /\ IF API_KEY = ""
       THEN /\ all_page_data' = <<>>
            /\ epc' = "returned"
       ELSE /\ all_page_data' = extract_text_from_pdf(doc)
            /\ epc' = IF all_page_data' = <<>> THEN "returned" ELSE "pages"
    /\ UNCHANGED <<API_KEY, file>>
    /\ UNCHANGED <<textVars, paperVars>>

\* lines 161-165: the loop takes the next page and calls the endpoint
BeginPage ==
    /\ epc = "pages" /\ cpc = "idle"
    /\ idx < Len(all_page_data)
    /\ submitted' = Append(submitted, all_page_data[idx + 1].page_num)
    /\ cpc' = "try"
    /\ UNCHANGED <<attempt, posts, waited, callResult, onlyTransport,
                   lastOutcome>>
    /\ UNCHANGED <<API_KEY, file, epc, document, all_page_data, idx,
                   all_extracted_heuristics, fileAtStart, ranBefore, writes,
                   pageResults, sleeps>>
    /\ UNCHANGED <<textVars, paperVars>>

\* lines 167-180: the call has returned; parse, extend, sleep 0.5 s.
\* len() of a number raises TypeError, which nothing catches.
EndPage ==
    /\ epc = "pages" /\ cpc = "returned"
    /\ LET json_result_str == callResult
           heuristics_list == json_loads(json_result_str)
           typeError == /\ Truthy(json_result_str)
                        /\ heuristics_list.kind = "number"
       IN  /\ pageResults' = Append(pageResults,
                   [page_num |-> all_page_data[idx + 1].page_num,
                    result |-> json_result_str])
           /\ IF typeError
              THEN /\ epc' = "raised"
                   /\ UNCHANGED <<all_extracted_heuristics, sleeps, idx>>
              ELSE /\ all_extracted_heuristics' =
                        IF /\ Truthy(json_result_str)
                           /\ heuristics_list.kind # "error"
                           /\ TruthyJson(heuristics_list)
                        THEN Extend(all_extracted_heuristics,
                                    heuristics_list.items)
                        ELSE all_extracted_heuristics
                   /\ sleeps' = sleeps + 1
                   /\ idx' = idx + 1
                   /\ UNCHANGED epc
    /\ CallReset
    /\ UNCHANGED <<API_KEY, file, document, all_page_data, fileAtStart,
                   ranBefore, writes, submitted>>
    /\ UNCHANGED <<textVars, paperVars>>

\* lines 182-196: after the loop the file is written, then previewed
WriteOutput ==
    /\ epc = "pages" /\ cpc = "idle"
    /\ LoopDone
    /\ file' = WriteFile(file, all_extracted_heuristics)
    /\ writes' = writes + 1
    /\ epc' = IF PreviewRaises(all_extracted_heuristics)
              THEN "raised" ELSE "returned"
    /\ UNCHANGED <<API_KEY, document, all_page_data, idx,
                   all_extracted_heuristics, fileAtStart, ranBefore,
                   submitted, pageResults, sleeps>>
    /\ UNCHANGED callVars
    /\ UNCHANGED <<textVars, paperVars>>


\* ------------------------------------------------------------------------
\* extract_text_from_pdf applied to a document (lines 43-74)
RunExtractText ==
    /\ tpc = "start"
    /\ page_texts' = extract_text_from_pdf(pdf)
    /\ tpc' = "returned"
    /\ UNCHANGED pdf
    /\ UNCHANGED <<extractVars, paperVars>>

\* ------------------------------------------------------------------------
\* search_arxiv (src/QueryarXiv.py lines 9-88)

\* an identifier is a string of characters; "N/A" is the default of line 72
Chars(a, b, c) == <<a, b, c>>
NA == Chars("N", "/", "A")

Missing == "<missing>"      \* the element is not in the entry
NoText  == "<no text>"      \* the element is there and empty: .text is None

MissingId == <<Missing>>

Entry(t, s, a, i, c) ==
    [title |-> t, summary |-> s, authors |-> a, id |-> i, category |-> c]

\* the entries a feed may hold
Entries ==
    << Entry("T1", "S1", <<"Ann", "Bob">>, Chars("x", "/", "1"), "cs.AI"),
       Entry("T2", "S2", <<"">>, Chars("x", "/", "2"), Missing),
       Entry(Missing, Missing, <<>>, MissingId, "cs.HC"),
       Entry(NoText, "S4", <<"Cy">>, Chars("x", "/", "1"), "cs.CL") >>

Feeds == SeqsUpTo(DOMAIN Entries, MaxEntries)

NoResponse == [kind |-> "none", wellformed |-> FALSE, feed |-> <<>>]

\* what the one GET can meet: an exception of requests.get, an error status
\* (raise_for_status), or a 200 response whose content is XML or not
SearchResponses ==
    {[kind |-> "transport", wellformed |-> FALSE, feed |-> <<>>],
     [kind |-> "http", wellformed |-> FALSE, feed |-> <<>>],
     [kind |-> "ok", wellformed |-> FALSE, feed |-> <<>>]}
    \cup {[kind |-> "ok", wellformed |-> TRUE, feed |-> f] : f \in Feeds}

Keywords == {"agent", "llm"}

\* line 21: `if not keywords`
KeywordsIsNone(kw) == FALSE
NoKeywords(kw) == Len(kw) = 0

\* lines 66-69: names with no text are left out
RECURSIVE AuthorNames(_)
AuthorNames(names) ==
    IF names = <<>> THEN <<>>
    ELSE IF Head(names) = "" THEN AuthorNames(Tail(names))
    ELSE <<Head(names)>> \o AuthorNames(Tail(names))

\* lines 61-62: `.text.strip()` of an element without text raises
\* AttributeError
EntryRaises(e) == e.title = NoText \/ e.summary = NoText

\* lines 61-81
PaperData(e) ==
    [title            |-> IF e.title = Missing THEN "N/A" ELSE e.title,
     authors          |-> AuthorNames(e.authors),
     summary          |-> IF e.summary = Missing THEN "N/A" ELSE e.summary,
     arxiv_id         |-> IF e.id = MissingId THEN NA ELSE e.id,
     primary_category |-> IF e.category = Missing THEN "N/A" ELSE e.category]

\* lines 21-46: the guard and the one GET
SearchRequest(resp) ==
    /\ spc = "start"
    /\ IF NoKeywords(keywords)
       THEN /\ papers' = <<>>
            /\ spc' = "returned"
            /\ UNCHANGED <<searchGets, response>>
       ELSE /\ searchGets' = searchGets + 1
            /\ response' = resp
            /\ papers' = <<>>
            /\ spc' = IF resp.kind = "ok" THEN "parse" ELSE "returned"
    /\ UNCHANGED <<keywords, dpc, di, downloadLog, pdf_dir, reported>>
    /\ UNCHANGED <<extractVars, textVars>>

\* lines 48-88: ET.fromstring and the loop over the entries
SearchParse ==
    /\ spc = "parse"
    /\ IF ~response.wellformed
       THEN papers' = <<>> /\ spc' = "returned"
       ELSE IF \E i \in DOMAIN response.feed :
                   EntryRaises(Entries[response.feed[i]])
       THEN papers' = <<>> /\ spc' = "raised"
       ELSE /\ papers' = [i \in DOMAIN response.feed |->
                              PaperData(Entries[response.feed[i]])]
            /\ spc' = "returned"
    /\ UNCHANGED <<keywords, searchGets, response, dpc, di, downloadLog,
                   pdf_dir, reported>>
    /\ UNCHANGED <<extractVars, textVars>>

\* ------------------------------------------------------------------------
\* download_pdfs (src/template.py lines 63-80), called by collect_papers
\* with the result of search_arxiv (lines 56-61)

\* str.split('/')
RECURSIVE Split(_, _, _)
Split(s, cur, acc) ==
    IF s = <<>> THEN Append(acc, cur)
    ELSE IF Head(s) = "/" THEN Split(Tail(s), <<>>, Append(acc, cur))
    ELSE Split(Tail(s), Append(cur, Head(s)), acc)

\* line 72: paper.get("arxiv_id", "").split('/')[-1]
Stem(paper) ==
    LET parts == Split(paper.arxiv_id, <<>>, <<>>) IN parts[Len(parts)]

\* what one GET of a PDF can meet: a status, or an exception of requests.get
DownloadOutcomes == {"200", "404", "exception"}

\* lines 68-69, and line 71 on an empty list
DownloadStart ==
    /\ spc = "returned" /\ dpc = "idle"
    /\ dpc' = IF papers = <<>> THEN "returned" ELSE "loop"
    /\ UNCHANGED <<keywords, spc, searchGets, response, papers, di,
                   downloadLog, pdf_dir, reported>>
    /\ UNCHANGED <<extractVars, textVars>>

\* lines 71-80: one iteration; an exception of requests.get is caught
\* nowhere and leaves the function
DownloadOne(outcome) ==
    /\ dpc = "loop"
    /\ LET arxiv_id == Stem(papers[di + 1])
       IN  /\ downloadLog' = Append(downloadLog,
                                    [stem |-> arxiv_id, outcome |-> outcome])
           /\ IF outcome = "exception"
              THEN /\ dpc' = "raised"
                   /\ UNCHANGED <<di, pdf_dir, reported>>
              ELSE /\ pdf_dir' = IF outcome = "200"
                                 THEN pdf_dir \cup {arxiv_id} ELSE pdf_dir
                   /\ reported' = Append(reported,
                          [stem |-> arxiv_id,
                           kind |-> IF outcome = "200" THEN "success"
                                    ELSE "error"])
                   /\ di' = di + 1
                   /\ dpc' = IF di + 1 < Len(papers) THEN "loop"
                             ELSE "returned"
    /\ UNCHANGED <<keywords, spc, searchGets, response, papers>>
    /\ UNCHANGED <<extractVars, textVars>>

\* ------------------------------------------------------------------------
\* the parts of the program at rest
ExtractIdle ==
    /\ file = Absent /\ epc = "idle" /\ document = OpenError
    /\ all_page_data = <<>> /\ idx = 0 /\ all_extracted_heuristics = <<>>
    /\ fileAtStart = Absent /\ ranBefore = FALSE /\ writes = 0
    /\ submitted = <<>> /\ pageResults = <<>> /\ sleeps = 0
    /\ CallIdle

TextIdle == tpc = "idle" /\ pdf = OpenError /\ page_texts = <<>>

PapersIdle ==
    /\ keywords = <<>> /\ spc = "idle" /\ searchGets = 0
    /\ response = NoResponse /\ papers = <<>>
    /\ dpc = "idle" /\ di = 0 /\ downloadLog = <<>> /\ pdf_dir = {}
    /\ reported = <<>>

\* ------------------------------------------------------------------------
\* Runs of extractPDF, one after the other, on documents of RunTexts
InitExtract ==
    /\ API_KEY \in ApiKeys
    /\ ExtractIdle /\ TextIdle /\ PapersIdle

extractPDF == \E doc \in Docs(RunTexts) : ExtractPDFStart(doc)

NextExtract == extractPDF \/ BeginPage \/ Attempt \/ EndPage \/ WriteOutput

SpecExtract == InitExtract /\ [][NextExtract]_vars


\* ------------------------------------------------------------------------
\* extract_text_from_pdf on documents of AllTexts
InitText ==
    /\ API_KEY = "AIza"
    /\ pdf \in Docs(AllTexts) /\ tpc = "start" /\ page_texts = <<>>
    /\ ExtractIdle /\ PapersIdle

NextText == RunExtractText

SpecText == InitText /\ [][NextText]_vars

\* ------------------------------------------------------------------------
\* collect_papers: search_arxiv on a keyword list, then download_pdfs
InitPapers ==
    /\ API_KEY = "AIza"
    /\ keywords \in SeqsUpTo(Keywords, MaxKeywords)
    /\ spc = "start" /\ searchGets = 0 /\ response = NoResponse
    /\ papers = <<>>
    /\ dpc = "idle" /\ di = 0 /\ downloadLog = <<>> /\ pdf_dir = {}
    /\ reported = <<>>
    /\ ExtractIdle /\ TextIdle

search_arxiv == (\E resp \in SearchResponses : SearchRequest(resp)) \/ SearchParse

download_pdfs == DownloadStart \/ \E o \in DownloadOutcomes : DownloadOne(o)

NextPapers == search_arxiv \/ download_pdfs

SpecPapers == InitPapers /\ [][NextPapers]_vars

\* the program: any of its entry points
Init == InitExtract \/ InitText \/ InitPapers

Next == NextExtract \/ NextText \/ NextPapers

Spec == Init /\ [][Next]_vars

\* ------------------------------------------------------------------------
\* Properties of call_gemini_for_extraction

\* the total slept after k failed attempts, k = 1..4: 1, 1+2, 1+2+4, 1+2+4+8
CumulativeWait == <<1, 3, 7, 15>>

C2_TotalWaitFourteen ==
    (cpc = "returned" /\ callResult # None /\ onlyTransport /\ attempt = 4)
        => waited = 14

\* C2 amended: the wait after failed attempt k (k = 0..3) is 2^k seconds,
\* so after 1, 2, 3, 4 failures the call has slept 1, 3, 7, 15 seconds; four
\* transport failures and a success on the 5th attempt have waited 15
\* seconds and return the text of the 5th response; nothing is slept after
\* the 5th attempt.
C2_BackoffSchedule ==
    /\ cpc = "try" => waited = (IF attempt = 0 THEN 0
                                ELSE CumulativeWait[attempt])
    /\ (cpc = "returned" /\ callResult # None /\ onlyTransport /\ attempt = 4)
            => (waited = 15 /\ posts = 5 /\ callResult = lastOutcome.text)
    /\ (cpc = "returned" /\ callResult = None) => waited = 15

C2_Witness ==
    /\ cpc = "returned" /\ callResult = <<"[", "H1", "]">>
    /\ onlyTransport /\ attempt = 4 /\ posts = 5 /\ waited = 15

\* C3: a 200 response without usable payload is handled like a transport
\* error: the call goes on to the next attempt, or has used all 5 attempts
\* and returns None; it does not raise and does not end early.
C3_NoPayloadIsRetried ==
    lastOutcome.label \in NoPayload =>
        \/ cpc = "try" /\ posts = attempt /\ attempt < 5
        \/ cpc = "returned" /\ callResult = None /\ posts = 5

\* ------------------------------------------------------------------------
\* Properties of extractPDF

\* what a page's result contributes: the elements of the parsed value
RulesOf(result) ==
    IF result = None THEN <<>>
    ELSE LET v == json_loads(result)
         IN  IF v.kind \in {"array", "object"} THEN v.items ELSE <<>>

RECURSIVE ExpectedRules(_)
ExpectedRules(results) ==
    IF results = <<>> THEN <<>>
    ELSE RulesOf(Head(results).result) \o ExpectedRules(Tail(results))

RECURSIVE RuleCount(_)
RuleCount(results) ==
    IF results = <<>> THEN 0
    ELSE Len(RulesOf(Head(results).result)) + RuleCount(Tail(results))

QualifyingPageNums(doc) ==
    {i \in 1..Len(doc.pages) : doc.pages[i].core > 100}

PassesGuards == API_KEY # "" /\ document.ok /\ QualifyingPageNums(document) # {}

FileIsArray == file # Absent /\ json_loads(file).kind = "array"

FileRules == IF file = Absent THEN <<>> ELSE json_loads(file).items

\* C4 as stated: after every run that returns normally the file exists,
\* holds a JSON array and was written exactly once.
C4_FileAfterEveryRun ==
    epc = "returned" => (FileIsArray /\ writes = 1)

\* C4 amended: a run that returns normally with a non-empty API key and at
\* least one qualifying page has written the file exactly once, after the
\* last page was processed, and the file holds a JSON array (of rule objects
\* when the responses held rule objects only); a run that returns at one of
\* the guards (empty key, PDF not opened, no qualifying page) writes nothing
\* and leaves the file as it found it.
C4_FileWrittenOnce ==
    /\ writes <= 1
    /\ epc = "pages" => writes = 0
    /\ writes = 1 =>
         /\ FileIsArray
         /\ Len(pageResults) = Len(all_page_data)
         /\ idx = Len(all_page_data)
         /\ (\A i \in DOMAIN pageResults :
                \A j \in DOMAIN pageResults[i].result :
                    pageResults[i].result[j] \notin NumberToks)
              => \A k \in DOMAIN FileRules : FileRules[k] \in ObjectToks
    /\ epc = "returned" =>
         IF PassesGuards THEN writes = 1
         ELSE writes = 0 /\ file = fileAtStart

C4_Witness ==
    /\ epc = "returned" /\ writes = 1 /\ file = <<"[", "]">>
    /\ Len(pageResults) = 2 /\ pageResults[1].result = None

\* C5: when the page loop has completed, the file holds the concatenation,
\* in ascending page order, of the lists of the pages whose call succeeded
\* and whose text parsed; its length is the sum of the per-page counts;
\* failed pages contribute nothing.
C5_FileIsConcatenation ==
    writes = 1 =>
        /\ json_loads(file) = JsonArray(ExpectedRules(pageResults))
        /\ Len(json_loads(file).items) = RuleCount(pageResults)
        /\ \A i, j \in DOMAIN pageResults :
              i < j => pageResults[i].page_num < pageResults[j].page_num
        /\ {pageResults[i].page_num : i \in DOMAIN pageResults}
              = QualifyingPageNums(document)

C5_Witness ==
    /\ writes = 1 /\ Len(pageResults) = 2
    /\ pageResults[1].result = <<"[", "H2", ",", "H1", "]">>
    /\ pageResults[2].result = <<"[", "H2", ",", "H1", "]">>
    /\ file = <<"[", "H2", ",", "H1", ",", "H2", ",", "H1", "]">>

\* C6 as stated: after a second run returns, whatever its outcome, the file
\* holds the rules of that run only.
C6_SecondRunAlwaysOverwrites ==
    (epc = "returned" /\ ranBefore) => FileRules = ExpectedRules(pageResults)

\* C6 amended: a run that reaches the end of its page loop overwrites the
\* file, which then holds the rules of that run only, whatever an earlier
\* run left; a run that returns at one of the guards leaves the file as the
\* earlier run left it.
C6_CompletedRunOverwrites ==
    /\ writes = 1 => file = json_dump(ExpectedRules(pageResults))
    /\ (epc = "returned" /\ writes = 0) => file = fileAtStart

C6_Witness ==
    /\ ranBefore /\ epc = "returned" /\ writes = 1
    /\ fileAtStart = <<"[", "H2", ",", "H1", "]">>
    /\ file = <<"[", "H1", "]">>

\* C10: whatever happens to earlier pages, every qualifying page is handed to
\* the call exactly once, in page order, and the 0.5 s delay follows each.
C10_EveryPageSubmittedOnce ==
    (epc \in {"returned", "raised"} /\ API_KEY # "") =>
        /\ submitted = [i \in DOMAIN all_page_data |-> all_page_data[i].page_num]
        /\ sleeps = Len(all_page_data)

\* ------------------------------------------------------------------------
\* Properties of extract_text_from_pdf

\* C7: the result holds exactly the pages whose stripped text is longer than
\* 100 characters (100 is left out, 101 is kept), in document order, each
\* with its text and the page number page_index + 1.
C7_PagesOver100Kept ==
    tpc = "returned" =>
        /\ \A i \in DOMAIN page_texts :
              /\ page_texts[i].page_num \in 1..Len(pdf.pages)
              /\ page_texts[i].text = pdf.pages[page_texts[i].page_num]
              /\ page_texts[i].text.core >= 101
        /\ \A n \in 1..Len(pdf.pages) :
              pdf.pages[n].core <= 100 =>
                  \A i \in DOMAIN page_texts : page_texts[i].page_num # n
        /\ \A n \in 1..Len(pdf.pages) :
              pdf.pages[n].core >= 101 =>
                  \E i \in DOMAIN page_texts : page_texts[i].page_num = n
        /\ \A i, j \in DOMAIN page_texts :
              i < j => page_texts[i].page_num < page_texts[j].page_num

C7_Witness ==
    /\ tpc = "returned"
    /\ pdf = [ok |-> TRUE, pages |-> <<Text(1, 100, 1), Text(0, 101, 1)>>]
    /\ page_texts = <<[page_num |-> 2, text |-> Text(0, 101, 1)]>>

\* ------------------------------------------------------------------------
\* Properties of download_pdfs and search_arxiv

\* C8: when download_pdfs has ended, one GET was issued for every paper of
\* the list, in list order, whatever the earlier GETs met (a failed download
\* never keeps a later paper from being tried), and the files written are
\* those of the papers answered 200.
C8_EveryPaperAttempted ==
    dpc \in {"returned", "raised"} =>
        /\ Len(downloadLog) = Len(papers)
        /\ \A i \in DOMAIN downloadLog :
              downloadLog[i].stem = Stem(papers[i])
        /\ pdf_dir = {downloadLog[i].stem :
                         i \in {k \in DOMAIN downloadLog :
                                   downloadLog[k].outcome = "200"}}

\* C9: with no keywords search_arxiv returns [] and issues no request; with
\* keywords it issues at most one GET, and returns [] when the GET fails or
\* the content is not XML.
C9_SearchGuardAndFailures ==
    /\ searchGets <= 1
    /\ keywords = <<>> =>
          /\ searchGets = 0 /\ response = NoResponse
          /\ spc \in {"start", "returned"}
          /\ papers = <<>>
    /\ (keywords # <<>> /\ spc # "start") => searchGets = 1
    /\ (response.kind \in {"transport", "http"}
          \/ (response.kind = "ok" /\ ~response.wellformed /\ spc # "parse"))
          => (spc = "returned" /\ papers = <<>>)

C9_Witness ==
    /\ keywords = <<>> /\ spc = "returned" /\ dpc = "returned"
    /\ searchGets = 0 /\ papers = <<>>

====
